---- MODULE Spec2Model ----
(***************************************************************************)
(* FlowLab dry-run laboratory: the Lab Session Controller (src/App.tsx),   *)
(* the Remote Reasoning Client (src/services/geminiService.ts) and the     *)
(* Shape Renderer (src/components/FlowchartRenderer.tsx) as a state        *)
(* machine.  The session is the React state of App; every handler is one   *)
(* action, and every await is a point where a call is in flight and other  *)
(* handlers may run before its continuation does.                          *)
(***************************************************************************)
EXTENDS Integers, Sequences, FiniteSets, Bags, TLC

VARIABLES
  description,        \* AppState.description, a sequence of characters
  image,              \* AppState.image: a data URL or NoImage (null)
  inputs,             \* AppState.inputs: variable name -> typed text
  isAnalyzing,        \* AppState.isAnalyzing: the parse busy flag
  isSimulating,       \* AppState.isSimulating: the simulate busy flag
  parsedData,         \* AppState.parsedData: a ParseResult or Null
  simulationData,     \* AppState.simulationData: a SimulationResult or Null
  currentStepIndex,   \* AppState.currentStepIndex: the trace cursor
  showResults,        \* AppState.showResults
  errorMessage,       \* AppState.errorMessage: a message or NoMessage (null)
  mode,               \* AppState.mode: "text" or "image"
  quotaExhausted,     \* quotaExhausted
  pendingCalls,       \* bag of remote calls awaited by handleParse / handleSimulate
  pendingKeyPrompts,  \* number of openSelectKey() promises awaited by handleSelectKey
  pendingReads        \* number of FileReader loads started by handleFileChange

session == <<description, image, inputs, isAnalyzing, isSimulating, parsedData,
             simulationData, currentStepIndex, showResults, errorMessage, mode,
             quotaExhausted>>

vars == <<description, image, inputs, isAnalyzing, isSimulating, parsedData,
          simulationData, currentStepIndex, showResults, errorMessage, mode,
          quotaExhausted, pendingCalls, pendingKeyPrompts, pendingReads>>

(***************************************************************************)
(* Bounds of the model.                                                    *)
(***************************************************************************)
\* asynchronous operations (remote calls, key prompts, file reads) in flight at once
MaxPending == 2
\* longest dry_run trace a simulate response carries
MaxTrace == 2

(***************************************************************************)
(* Values.  null is Null for the two result objects and a reserved text    *)
(* for the two nullable strings.                                           *)
(***************************************************************************)
Null == [isNull |-> TRUE]
NoImage == "null"
NoMessage == "null"

\* JSON values of the remote responses (variable_state entries, outputs, scores)
JNum(n) == [number |-> n]
JStr(s) == [string |-> s]
JBool(b) == [boolean |-> b]
JNull == [null |-> TRUE]
Undefined == [undefined |-> TRUE]

\* the empty object {} / the empty Record
EmptyMap == <<>>

Chars == {" ", "x"}
Descriptions == {<<>>, <<" ", " ">>, <<" ", "x", " ">>}
Images == {"data:image/png;base64,AAAA"}
InputTexts == {"", "1"}
VariableNames == {"a", "b"}

QuotaMessage == "The free quota for this lab is currently exhausted. Please select your own API key to continue."
ExpiredMessage == "API key session expired. Please re-select your key."
GenericMessage == "An error occurred. Please try again."
ValidationMessage == "Please provide values for all input variables."

(***************************************************************************)
(* String.prototype.trim on a sequence of characters.                      *)
(***************************************************************************)
IsSpace(c) == c = " "

RECURSIVE TrimStart(_)
TrimStart(s) ==
  IF s # <<>> /\ IsSpace(Head(s)) THEN TrimStart(Tail(s)) ELSE s

RECURSIVE TrimEnd(_)
TrimEnd(s) ==
  IF s # <<>> /\ IsSpace(s[Len(s)]) THEN TrimEnd(SubSeq(s, 1, Len(s) - 1)) ELSE s

Trim(s) == TrimEnd(TrimStart(s))

Range(s) == {s[i] : i \in DOMAIN s}

(***************************************************************************)
(* The Remote Reasoning Client.  A response is the JSON object the model   *)
(* answered with; a field the answer leaves out is absent from the record. *)
(***************************************************************************)
Has(obj, f) == f \in DOMAIN obj

\* JavaScript truthiness of a JSON value: 0, "", false, null and undefined are
\* falsy, objects (the empty one included) are truthy
Truthy(v) ==
  IF Has(v, "number") THEN v.number # 0
  ELSE IF Has(v, "string") THEN v.string # ""
  ELSE IF Has(v, "boolean") THEN v.boolean
  ELSE ~(Has(v, "null") \/ Has(v, "undefined"))

\* obj.f, undefined when the object has no such field
Field(obj, f) == IF Has(obj, f) THEN obj[f] ELSE Undefined

Flowchart ==
  << [id |-> 1, type |-> "start", text |-> "Start"],
     [id |-> 2, type |-> "input", text |-> "Read a,b"],
     [id |-> 3, type |-> "end", text |-> "End"] >>

\* JSON answers to the parse prompt: the empty object and a flowchart of two variables
ParseResponses ==
  { EmptyMap, [variables |-> <<"a", "b">>, digital_flowchart |-> Flowchart] }

\* parseFlowchart's return value for the JSON answer parsed
parseFlowchart(parsed) ==
  [ variables |-> IF Has(parsed, "variables") THEN parsed.variables ELSE <<>>,
    digital_flowchart |->
      IF Has(parsed, "digital_flowchart") THEN parsed.digital_flowchart ELSE <<>> ]

RawStep(k) ==
  [ step_number |-> k, description |-> "step",
    variable_state |-> [a |-> JNum(k)], flowchart_step_id |-> k ]

\* a step that leaves variable_state out
BareStep(k) == [step_number |-> k, description |-> "step", flowchart_step_id |-> k]

RawTrace(n) == [k \in 1..n |-> IF k = 1 THEN BareStep(k) ELSE RawStep(k)]

\* JSON answers to the simulate prompt: the empty object and one trace per length
SimulateResponses ==
  { EmptyMap } \cup
  { [ dry_run |-> RawTrace(n), is_correct |-> JBool(TRUE), accuracy_score |-> JNum(100),
      expected_output |-> JNum(n), actual_output |-> JNum(n) ] : n \in 1..MaxTrace }

\* step => ({ ...step, variable_state: step.variable_state || {} })
normalizeStep(step) ==
  [ f \in DOMAIN step \cup {"variable_state"} |->
      IF f = "variable_state"
        THEN IF Has(step, "variable_state") /\ Truthy(step.variable_state)
               THEN step.variable_state
               ELSE EmptyMap
        ELSE step[f] ]

\* runSimulation's return value for the JSON answer parsed
runSimulation(result) ==
  LET dry == IF Has(result, "dry_run") THEN result.dry_run ELSE <<>>
      score == Field(result, "accuracy_score")
  IN [ dry_run |-> [k \in DOMAIN dry |-> normalizeStep(dry[k])],
       is_correct |-> Truthy(Field(result, "is_correct")),
       accuracy_score |-> IF score \in {Undefined, JNull} THEN JNum(0) ELSE score,
       mistake_explanation |-> Field(result, "mistake_explanation"),
       expected_output |-> Field(result, "expected_output"),
       actual_output |-> Field(result, "actual_output") ]

(***************************************************************************)
(* A rejected call's error message, by the markers its text contains.      *)
(***************************************************************************)
Markers == {"429", "RESOURCE_EXHAUSTED", "Requested entity was not found"}
ErrorMessages ==
  { {}, {"429"}, {"RESOURCE_EXHAUSTED"}, {"Requested entity was not found"},
    {"RESOURCE_EXHAUSTED", "Requested entity was not found"} }
Includes(msg, marker) == marker \in msg

(***************************************************************************)
(* The Lab Session Controller.                                             *)
(***************************************************************************)
\* useState's initial value, with nothing in flight
Init ==
  /\ description = <<>>
  /\ image = NoImage
  /\ inputs = EmptyMap
  /\ isAnalyzing = FALSE
  /\ isSimulating = FALSE
  /\ parsedData = Null
  /\ simulationData = Null
  /\ currentStepIndex = -1
  /\ showResults = FALSE
  /\ errorMessage = NoMessage
  /\ mode = "text"
  /\ quotaExhausted = FALSE
  /\ pendingCalls = EmptyBag
  /\ pendingKeyPrompts = 0
  /\ pendingReads = 0

\* asynchronous operations in flight
InFlight == BagCardinality(pendingCalls) + pendingKeyPrompts + pendingReads

\* the textarea's onChange, rendered in text mode
setDescription(value) ==
  /\ mode = "text"
  /\ description' = value
  /\ UNCHANGED <<image, inputs, isAnalyzing, isSimulating, parsedData, simulationData,
                 currentStepIndex, showResults, errorMessage, mode, quotaExhausted,
                 pendingCalls, pendingKeyPrompts, pendingReads>>

\* the Text / Image toggle buttons
setMode(m) ==
  /\ mode' = m
  /\ UNCHANGED <<description, image, inputs, isAnalyzing, isSimulating, parsedData,
                 simulationData, currentStepIndex, showResults, errorMessage,
                 quotaExhausted, pendingCalls, pendingKeyPrompts, pendingReads>>

\* handleFileChange with a file chosen: the file input is rendered in image mode
handleFileChange ==
  /\ mode = "image"
  /\ InFlight < MaxPending
  /\ pendingReads' = pendingReads + 1
  /\ UNCHANGED <<session, pendingCalls, pendingKeyPrompts>>

\* reader.onloadend: reader.result is the data URL, or null when the read failed
readerLoadEnd(result) ==
  /\ pendingReads > 0
  /\ pendingReads' = pendingReads - 1
  /\ image' = result
  /\ mode' = "image"
  /\ UNCHANGED <<description, inputs, isAnalyzing, isSimulating, parsedData,
                 simulationData, currentStepIndex, showResults, errorMessage,
                 quotaExhausted, pendingCalls, pendingKeyPrompts>>

\* handleSelectKey up to its await: openSelectKey() is called when the host offers it;
\* others counts the other operations left in flight
callSelectKey(hostHasPrompt, others) ==
  IF hostHasPrompt
    THEN others < MaxPending /\ pendingKeyPrompts' = pendingKeyPrompts + 1
    ELSE UNCHANGED pendingKeyPrompts

\* the API Key / Select Key buttons
handleSelectKey ==
  /\ \E hostHasPrompt \in BOOLEAN : callSelectKey(hostHasPrompt, InFlight)
  /\ UNCHANGED <<session, pendingCalls, pendingReads>>

\* handleSelectKey after its await, openSelectKey() resolved
\* handleSelectKey continuation that clears the quota flag only
handleSelectKeyResolvedKeepMessage ==
  /\ pendingKeyPrompts > 0
  /\ pendingKeyPrompts' = pendingKeyPrompts - 1
  /\ quotaExhausted' = FALSE
  /\ UNCHANGED <<description, image, inputs, isAnalyzing, isSimulating, parsedData,
                 simulationData, currentStepIndex, showResults, errorMessage, mode,
                 pendingCalls, pendingReads>>

handleSelectKeyResolved ==
  /\ pendingKeyPrompts > 0
  /\ pendingKeyPrompts' = pendingKeyPrompts - 1
  /\ quotaExhausted' = FALSE
  /\ errorMessage' = NoMessage
  /\ UNCHANGED <<description, image, inputs, isAnalyzing, isSimulating, parsedData,
                 simulationData, currentStepIndex, showResults, mode, pendingCalls,
                 pendingReads>>

\* handleSelectKey's catch, openSelectKey() rejected
handleSelectKeyRejected ==
  /\ pendingKeyPrompts > 0
  /\ pendingKeyPrompts' = pendingKeyPrompts - 1
  /\ UNCHANGED <<session, pendingCalls, pendingReads>>

\* handleError raising the quota flag for an expired key as well
\* handleError whose last branch sets no message
handleErrorGenericSilent(msg) ==
  IF Includes(msg, "429") \/ Includes(msg, "RESOURCE_EXHAUSTED")
    THEN /\ quotaExhausted' = TRUE
         /\ errorMessage' = QuotaMessage
         /\ UNCHANGED pendingKeyPrompts
    ELSE IF Includes(msg, "Requested entity was not found")
      THEN /\ errorMessage' = ExpiredMessage
           /\ \E hostHasPrompt \in BOOLEAN : callSelectKey(hostHasPrompt, InFlight - 1)
           /\ UNCHANGED quotaExhausted
      ELSE UNCHANGED <<errorMessage, quotaExhausted, pendingKeyPrompts>>

handleErrorExpiredQuota(msg) ==
  IF Includes(msg, "429") \/ Includes(msg, "RESOURCE_EXHAUSTED")
    THEN /\ quotaExhausted' = TRUE
         /\ errorMessage' = QuotaMessage
         /\ UNCHANGED pendingKeyPrompts
    ELSE IF Includes(msg, "Requested entity was not found")
      THEN /\ errorMessage' = ExpiredMessage
           /\ \E hostHasPrompt \in BOOLEAN : callSelectKey(hostHasPrompt, InFlight - 1)
           /\ quotaExhausted' = TRUE
      ELSE /\ errorMessage' = GenericMessage
           /\ UNCHANGED <<quotaExhausted, pendingKeyPrompts>>

\* handleError testing the expired-key marker before the quota markers
handleErrorExpiredFirst(msg) ==
  IF Includes(msg, "Requested entity was not found")
    THEN /\ errorMessage' = ExpiredMessage
         /\ \E hostHasPrompt \in BOOLEAN : callSelectKey(hostHasPrompt, InFlight - 1)
         /\ UNCHANGED quotaExhausted
    ELSE IF Includes(msg, "429") \/ Includes(msg, "RESOURCE_EXHAUSTED")
      THEN /\ quotaExhausted' = TRUE
           /\ errorMessage' = QuotaMessage
           /\ UNCHANGED pendingKeyPrompts
      ELSE /\ errorMessage' = GenericMessage
           /\ UNCHANGED <<quotaExhausted, pendingKeyPrompts>>

\* handleError in the catch of a call that has left flight: sets errorMessage,
\* quotaExhausted and pendingKeyPrompts
handleError(msg) ==
  IF Includes(msg, "429") \/ Includes(msg, "RESOURCE_EXHAUSTED")
    THEN /\ quotaExhausted' = TRUE
         /\ errorMessage' = QuotaMessage
         /\ UNCHANGED pendingKeyPrompts
    ELSE IF Includes(msg, "Requested entity was not found")
      THEN /\ errorMessage' = ExpiredMessage
           /\ \E hostHasPrompt \in BOOLEAN : callSelectKey(hostHasPrompt, InFlight - 1)
           /\ UNCHANGED quotaExhausted
      ELSE /\ errorMessage' = GenericMessage
           /\ UNCHANGED <<quotaExhausted, pendingKeyPrompts>>

\* A call in flight, with the arguments its handler passed:
\* parseFlowchart(state.description, state.image || undefined)
\* a parse call whose payload depends on the input mode
ParseCallByMode ==
  [kind |-> "parse",
   description |-> IF mode = "text" THEN description ELSE <<>>,
   inputs |-> EmptyMap, digital_flowchart |-> <<>>,
   image |-> IF mode = "image" THEN image ELSE NoImage]

ParseCall ==
  [kind |-> "parse", description |-> description, inputs |-> EmptyMap,
   digital_flowchart |-> <<>>, image |-> image]

\* runSimulation(state.description, state.inputs, state.parsedData.digital_flowchart,
\*               state.image || undefined)
SimulateCall ==
  [kind |-> "simulate", description |-> description, inputs |-> inputs,
   digital_flowchart |-> parsedData.digital_flowchart, image |-> image]

Pending(kind) == {c \in BagToSet(pendingCalls) : c.kind = kind}

\* canParse without the test for a missing image
canParseTextOnly == ~(mode = "text" /\ Trim(description) = <<>>)

\* canParse testing the description without trimming it
canParseUntrimmed ==
  /\ ~(mode = "text" /\ description = <<>>)
  /\ ~(mode = "image" /\ image = NoImage)

\* the precondition handleParse returns on
canParse ==
  /\ ~(mode = "text" /\ Trim(description) = <<>>)
  /\ ~(mode = "image" /\ image = NoImage)

\* handleParse clearing quotaExhausted along with errorMessage
handleParseClearsQuota ==
  /\ ~isAnalyzing
  /\ IF canParse
       THEN /\ InFlight < MaxPending
            /\ isAnalyzing' = TRUE
            /\ errorMessage' = NoMessage
            /\ quotaExhausted' = FALSE
            /\ parsedData' = Null
            /\ simulationData' = Null
            /\ pendingCalls' = pendingCalls (+) SetToBag({ParseCall})
            /\ UNCHANGED <<description, image, inputs, isSimulating, currentStepIndex,
                           showResults, mode, pendingKeyPrompts, pendingReads>>
       ELSE UNCHANGED vars

\* handleParse up to its await; the Identify Variables button is disabled while isAnalyzing
handleParse ==
  /\ ~isAnalyzing
  /\ IF canParse
       THEN /\ InFlight < MaxPending
            /\ isAnalyzing' = TRUE
            /\ errorMessage' = NoMessage
            /\ parsedData' = Null
            /\ simulationData' = Null
            /\ pendingCalls' = pendingCalls (+) SetToBag({ParseCall})
            /\ UNCHANGED <<description, image, inputs, isSimulating, currentStepIndex,
                           showResults, mode, quotaExhausted, pendingKeyPrompts,
                           pendingReads>>
       ELSE UNCHANGED vars

\* initialInputs merged into the inputs already stored
initialInputsMerged(variables) ==
  [v \in DOMAIN inputs \cup Range(variables) |->
     IF v \in DOMAIN inputs THEN inputs[v] ELSE ""]

\* (result.variables || []).reduce((acc, curr) => ({ ...acc, [curr]: '' }), {})
initialInputs(variables) == [v \in Range(variables) |-> ""]

\* handleParseResolved without the inputs of its setState: the typed inputs stay
handleParseResolvedKeepInputs(call, response) ==
  /\ call \in Pending("parse")
  /\ pendingCalls' = pendingCalls (-) SetToBag({call})
  /\ parsedData' = parseFlowchart(response)
  /\ isAnalyzing' = FALSE
  /\ UNCHANGED <<description, image, inputs, isSimulating, simulationData,
                 currentStepIndex, showResults, errorMessage, mode, quotaExhausted,
                 pendingKeyPrompts, pendingReads>>

\* handleParse after its await, parseFlowchart resolved
handleParseResolved(call, response) ==
  /\ call \in Pending("parse")
  /\ pendingCalls' = pendingCalls (-) SetToBag({call})
  /\ parsedData' = parseFlowchart(response)
  /\ inputs' = initialInputs(parseFlowchart(response).variables)
  /\ isAnalyzing' = FALSE
  /\ UNCHANGED <<description, image, isSimulating, simulationData, currentStepIndex,
                 showResults, errorMessage, mode, quotaExhausted, pendingKeyPrompts,
                 pendingReads>>

\* handleParseRejected without the catch's setState: the busy flag stays set
handleParseRejectedBusy(call, msg) ==
  /\ call \in Pending("parse")
  /\ pendingCalls' = pendingCalls (-) SetToBag({call})
  /\ handleError(msg)
  /\ UNCHANGED <<description, image, inputs, isAnalyzing, isSimulating, parsedData,
                 simulationData, currentStepIndex, showResults, mode, pendingReads>>

\* handleParse's catch, parseFlowchart rejected
handleParseRejected(call, msg) ==
  /\ call \in Pending("parse")
  /\ pendingCalls' = pendingCalls (-) SetToBag({call})
  /\ isAnalyzing' = FALSE
  /\ handleError(msg)
  /\ UNCHANGED <<description, image, inputs, isSimulating, parsedData, simulationData,
                 currentStepIndex, showResults, mode, pendingReads>>

\* the variable input's onChange; the input is disabled once simulationData is set
recordInput(varName, value) ==
  /\ parsedData # Null
  /\ varName \in Range(parsedData.variables)
  /\ simulationData = Null
  /\ inputs' = [k \in DOMAIN inputs \cup {varName} |->
                  IF k = varName THEN value ELSE inputs[k]]
  /\ UNCHANGED <<description, image, isAnalyzing, isSimulating, parsedData,
                 simulationData, currentStepIndex, showResults, errorMessage, mode,
                 quotaExhausted, pendingCalls, pendingKeyPrompts, pendingReads>>

\* allFilled with some in place of every
allFilledSome == \E k \in DOMAIN inputs : inputs[k] # ""

\* Object.values(state.inputs || {}).every(v => v !== '')
allFilled == \A k \in DOMAIN inputs : inputs[k] # ""

\* handleSimulate up to its await; the Start Dry Run button is rendered while a
\* flowchart and no outcome is stored, and disabled while isSimulating
handleSimulate ==
  /\ parsedData # Null
  /\ simulationData = Null
  /\ ~isSimulating
  /\ IF ~allFilled
       THEN /\ errorMessage' = ValidationMessage
            /\ UNCHANGED <<description, image, inputs, isAnalyzing, isSimulating,
                           parsedData, simulationData, currentStepIndex, showResults,
                           mode, quotaExhausted, pendingCalls, pendingKeyPrompts,
                           pendingReads>>
       ELSE /\ InFlight < MaxPending
            /\ isSimulating' = TRUE
            /\ errorMessage' = NoMessage
            /\ currentStepIndex' = -1
            /\ showResults' = FALSE
            /\ pendingCalls' = pendingCalls (+) SetToBag({SimulateCall})
            /\ UNCHANGED <<description, image, inputs, isAnalyzing, parsedData,
                           simulationData, mode, quotaExhausted, pendingKeyPrompts,
                           pendingReads>>

\* handleSimulateResolved without currentStepIndex: 0 in its setState
handleSimulateResolvedKeepCursor(call, response) ==
  /\ call \in Pending("simulate")
  /\ pendingCalls' = pendingCalls (-) SetToBag({call})
  /\ simulationData' = runSimulation(response)
  /\ isSimulating' = FALSE
  /\ UNCHANGED <<description, image, inputs, isAnalyzing, parsedData, currentStepIndex,
                 showResults, errorMessage, mode, quotaExhausted, pendingKeyPrompts,
                 pendingReads>>

\* handleSimulate after its await, runSimulation resolved
handleSimulateResolved(call, response) ==
  /\ call \in Pending("simulate")
  /\ pendingCalls' = pendingCalls (-) SetToBag({call})
  /\ simulationData' = runSimulation(response)
  /\ isSimulating' = FALSE
  /\ currentStepIndex' = 0
  /\ UNCHANGED <<description, image, inputs, isAnalyzing, parsedData, showResults,
                 errorMessage, mode, quotaExhausted, pendingKeyPrompts, pendingReads>>

\* handleSimulateRejected without the catch's setState: the busy flag stays set
handleSimulateRejectedBusy(call, msg) ==
  /\ call \in Pending("simulate")
  /\ pendingCalls' = pendingCalls (-) SetToBag({call})
  /\ handleError(msg)
  /\ UNCHANGED <<description, image, inputs, isAnalyzing, isSimulating, parsedData,
                 simulationData, currentStepIndex, showResults, mode, pendingReads>>

\* handleSimulate's catch, runSimulation rejected
handleSimulateRejected(call, msg) ==
  /\ call \in Pending("simulate")
  /\ pendingCalls' = pendingCalls (-) SetToBag({call})
  /\ isSimulating' = FALSE
  /\ handleError(msg)
  /\ UNCHANGED <<description, image, inputs, isAnalyzing, parsedData, simulationData,
                 currentStepIndex, showResults, mode, pendingReads>>

\* goToNextStep comparing with > in place of >=
goToNextStepPast ==
  /\ simulationData # Null
  /\ LET nextIdx == currentStepIndex + 1 IN
       IF nextIdx > Len(simulationData.dry_run)
         THEN showResults' = TRUE /\ UNCHANGED currentStepIndex
         ELSE currentStepIndex' = nextIdx /\ UNCHANGED showResults
  /\ UNCHANGED <<description, image, inputs, isAnalyzing, isSimulating, parsedData,
                 simulationData, errorMessage, mode, quotaExhausted, pendingCalls,
                 pendingKeyPrompts, pendingReads>>

\* goToNextStep revealing the results one step early
goToNextStepEarly ==
  /\ simulationData # Null
  /\ LET nextIdx == currentStepIndex + 1 IN
       IF nextIdx >= Len(simulationData.dry_run) - 1
         THEN showResults' = TRUE /\ UNCHANGED currentStepIndex
         ELSE currentStepIndex' = nextIdx /\ UNCHANGED showResults
  /\ UNCHANGED <<description, image, inputs, isAnalyzing, isSimulating, parsedData,
                 simulationData, errorMessage, mode, quotaExhausted, pendingCalls,
                 pendingKeyPrompts, pendingReads>>

\* goToNextStep; its button is rendered while simulationData is set
goToNextStep ==
  /\ simulationData # Null
  /\ LET nextIdx == currentStepIndex + 1 IN
       IF nextIdx >= Len(simulationData.dry_run)
         THEN showResults' = TRUE /\ UNCHANGED currentStepIndex
         ELSE currentStepIndex' = nextIdx /\ UNCHANGED showResults
  /\ UNCHANGED <<description, image, inputs, isAnalyzing, isSimulating, parsedData,
                 simulationData, errorMessage, mode, quotaExhausted, pendingCalls,
                 pendingKeyPrompts, pendingReads>>

\* reset written from AppState's fields alone: quotaExhausted is not one of them
resetAppState ==
  /\ description' = <<>>
  /\ image' = NoImage
  /\ inputs' = EmptyMap
  /\ isAnalyzing' = FALSE
  /\ isSimulating' = FALSE
  /\ parsedData' = Null
  /\ simulationData' = Null
  /\ currentStepIndex' = -1
  /\ showResults' = FALSE
  /\ errorMessage' = NoMessage
  /\ mode' = "text"
  /\ UNCHANGED <<quotaExhausted, pendingCalls, pendingKeyPrompts, pendingReads>>

\* reset, the New Lab button
reset ==
  /\ description' = <<>>
  /\ image' = NoImage
  /\ inputs' = EmptyMap
  /\ isAnalyzing' = FALSE
  /\ isSimulating' = FALSE
  /\ parsedData' = Null
  /\ simulationData' = Null
  /\ currentStepIndex' = -1
  /\ showResults' = FALSE
  /\ errorMessage' = NoMessage
  /\ mode' = "text"
  /\ quotaExhausted' = FALSE
  /\ UNCHANGED <<pendingCalls, pendingKeyPrompts, pendingReads>>

Next ==
  \/ \E value \in Descriptions : setDescription(value)
  \/ \E m \in {"text", "image"} : setMode(m)
  \/ handleFileChange
  \/ \E result \in Images \cup {NoImage} : readerLoadEnd(result)
  \/ handleSelectKey
  \/ handleSelectKeyResolved
  \/ handleSelectKeyRejected
  \/ handleParse
  \/ \E call \in Pending("parse"), response \in ParseResponses :
       handleParseResolved(call, response)
  \/ \E call \in Pending("parse"), msg \in ErrorMessages : handleParseRejected(call, msg)
  \/ \E varName \in VariableNames, value \in InputTexts : recordInput(varName, value)
  \/ handleSimulate
  \/ \E call \in Pending("simulate"), response \in SimulateResponses :
       handleSimulateResolved(call, response)
  \/ \E call \in Pending("simulate"), msg \in ErrorMessages :
       handleSimulateRejected(call, msg)
  \/ goToNextStep
  \/ reset

Spec == Init /\ [][Next]_vars

\* a pending parse call resolves or rejects
ParseSettles ==
  \/ \E call \in Pending("parse"), response \in ParseResponses :
       handleParseResolved(call, response)
  \/ \E call \in Pending("parse"), msg \in ErrorMessages : handleParseRejected(call, msg)

\* a pending simulate call resolves or rejects
SimulateSettles ==
  \/ \E call \in Pending("simulate"), response \in SimulateResponses :
       handleSimulateResolved(call, response)
  \/ \E call \in Pending("simulate"), msg \in ErrorMessages :
       handleSimulateRejected(call, msg)

\* the controller where no awaited remote call stays pending for ever
FairSpec == Spec /\ WF_vars(ParseSettles) /\ WF_vars(SimulateSettles)

(***************************************************************************)
(* The derived views App computes on every render from the session.        *)
(***************************************************************************)
\* currentDryStep: the trace step under the cursor, or null
currentDryStep ==
  IF /\ simulationData # Null
     /\ currentStepIndex >= 0
     /\ currentStepIndex < Len(simulationData.dry_run)
    THEN simulationData.dry_run[currentStepIndex + 1]
    ELSE Null

\* previousDryStep: the trace step before the cursor, or null
previousDryStep ==
  IF /\ simulationData # Null
     /\ currentStepIndex > 0
     /\ currentStepIndex - 1 < Len(simulationData.dry_run)
    THEN simulationData.dry_run[currentStepIndex]
    ELSE Null

\* prevVal = previousDryStep?.variable_state ? previousDryStep.variable_state[key]
\*                                            : undefined
prevVal(key) ==
  IF previousDryStep # Null /\ Has(previousDryStep, "variable_state")
    THEN Field(previousDryStep.variable_state, key)
    ELSE Undefined

\* hasChanged comparing with the current step itself in place of the previous one
hasChangedSameStep(key) ==
  /\ Field(currentDryStep.variable_state, key) # Undefined
  /\ Field(currentDryStep.variable_state, key) # currentDryStep.variable_state[key]

\* hasChanged of the State Memory row of key, an entry of the current step's state
hasChanged(key) ==
  /\ prevVal(key) # Undefined
  /\ prevVal(key) # currentDryStep.variable_state[key]

\* the keys the State Memory panel renders a row for
memoryKeys ==
  IF currentDryStep # Null /\ Has(currentDryStep, "variable_state")
    THEN DOMAIN currentDryStep.variable_state
    ELSE {}

\* the Changed! mark is shown for key
showsChanged(key) == key \in memoryKeys /\ hasChanged(key)

\* displayValue of the tracker's input for varName: the current step's value when
\* it is not undefined, else state.inputs[varName]
displayValue(varName) ==
  IF /\ currentDryStep # Null
     /\ Has(currentDryStep, "variable_state")
     /\ Field(currentDryStep.variable_state, varName) # Undefined
    THEN currentDryStep.variable_state[varName]
    ELSE IF varName \in DOMAIN inputs THEN JStr(inputs[varName]) ELSE Undefined

\* the text an input shows for a value prop
ValueText(v) ==
  IF Has(v, "string") THEN v.string
  ELSE IF Has(v, "number") THEN ToString(v.number)
  ELSE IF Has(v, "boolean") THEN (IF v.boolean THEN "true" ELSE "false")
  ELSE ""

\* value={displayValue || ''} as the input shows it
inputText(varName) ==
  ValueText(IF Truthy(displayValue(varName)) THEN displayValue(varName) ELSE JStr(""))

(***************************************************************************)
(* The session right after a simulate call resolved, for every trace the   *)
(* remote service can answer with over the tracked values.                 *)
(***************************************************************************)
\* longest trace of the tracker's sessions
MaxViewTrace == 2

TrackerValues == {JNum(0), JNum(1), JStr(""), JBool(FALSE), JNull}

\* variable_state objects over the variable names; Undefined stands for a step that
\* leaves variable_state out
VariableStates ==
  UNION {[names -> TrackerValues] : names \in SUBSET VariableNames} \cup {Undefined}

TrackerStep(k, state) ==
  IF state = Undefined
    THEN BareStep(k)
    ELSE [step_number |-> k, description |-> "step", variable_state |-> state,
          flowchart_step_id |-> k]

\* the JSON answer whose trace has the given variable_state per step
TrackerResponse(states) ==
  [dry_run |-> [k \in DOMAIN states |-> TrackerStep(k, states[k])],
   is_correct |-> JBool(TRUE), accuracy_score |-> JNum(100),
   expected_output |-> JNum(1), actual_output |-> JNum(1)]

\* the session handleSimulateResolved leaves when the parse answered parsed and the
\* simulate answered result
ViewInit(parsed, result) ==
  /\ description = <<"x">>
  /\ image = NoImage
  /\ inputs \in [Range(parseFlowchart(parsed).variables) -> InputTexts]
  /\ isAnalyzing = FALSE
  /\ isSimulating = FALSE
  /\ parsedData = parseFlowchart(parsed)
  /\ simulationData = runSimulation(result)
  /\ currentStepIndex = 0
  /\ showResults = FALSE
  /\ errorMessage = NoMessage
  /\ mode = "text"
  /\ quotaExhausted = FALSE
  /\ pendingCalls = EmptyBag
  /\ pendingKeyPrompts = 0
  /\ pendingReads = 0

TrackerInit ==
  \E n \in 1..MaxViewTrace : \E states \in [1..n -> VariableStates] :
    ViewInit([variables |-> <<"a", "b">>, digital_flowchart |-> Flowchart],
             TrackerResponse(states))

\* stepping through the trace re-renders the tracker
TrackerSpec == TrackerInit /\ [][goToNextStep]_vars

(***************************************************************************)
(* The Shape Renderer, as App mounts it.                                   *)
(***************************************************************************)
\* steps={state.parsedData.digital_flowchart || []}
steps == parsedData.digital_flowchart

\* activeStepId={currentDryStep?.flowchart_step_id ?? null}
activeStepId ==
  IF currentDryStep # Null /\ Has(currentDryStep, "flowchart_step_id")
    THEN JNum(currentDryStep.flowchart_step_id)
    ELSE JNull

\* getShapeClasses' isActive for a step id
isActive(id) == activeStepId = JNum(id)

\* the positions of the steps rendered with the active classes
highlighted == {idx \in DOMAIN steps : isActive(steps[idx].id)}

\* longest flowchart of the renderer's sessions
MaxSteps == 2

\* ids the parse answer gives its steps, and ids the trace steps refer to
FlowchartIds == {1, 2}
TraceStepIds == {JNum(1), JNum(2), JNum(3)}

\* a parse answer whose steps carry the given ids
RenderParsed(ids) ==
  [variables |-> <<"a", "b">>,
   digital_flowchart |-> [k \in DOMAIN ids |-> [id |-> ids[k], type |-> "process", text |-> "step"]]]

\* a trace step referring to flowchart step id, or to none (Undefined)
RenderStep(k, id) ==
  IF id = Undefined
    THEN [step_number |-> k, description |-> "step", variable_state |-> EmptyMap]
    ELSE [step_number |-> k, description |-> "step", variable_state |-> EmptyMap,
          flowchart_step_id |-> id.number]

RenderResponse(ids) ==
  [dry_run |-> [k \in DOMAIN ids |-> RenderStep(k, ids[k])],
   is_correct |-> JBool(TRUE), accuracy_score |-> JNum(100),
   expected_output |-> JNum(1), actual_output |-> JNum(1)]

RenderInit ==
  \E m \in 0..MaxSteps, n \in 1..MaxViewTrace :
    \E stepIds \in [1..m -> FlowchartIds], refs \in [1..n -> TraceStepIds \cup {Undefined}] :
      ViewInit(RenderParsed(stepIds), RenderResponse(refs))

\* stepping through the trace re-renders the flowchart
RenderSpec == RenderInit /\ [][goToNextStep]_vars

(***************************************************************************)
(* The results panel, rendered while showResults and an outcome is stored. *)
(***************************************************************************)
\* the panel is rendered
resultsShown == showResults /\ simulationData # Null

\* state.simulationData.accuracy_score || 0, the score the panel displays and grades
displayedScore ==
  IF Truthy(simulationData.accuracy_score) THEN simulationData.accuracy_score ELSE JNum(0)

\* accuracy_score values of the JSON answer; Undefined stands for an answer without it
Scores ==
  { Undefined, JNull, JStr("high"), JBool(TRUE),
    JNum(-1), JNum(0), JNum(69), JNum(70), JNum(79), JNum(80), JNum(89), JNum(90),
    JNum(100), JNum(101) }

\* a simulate answer of n trace steps with the given accuracy_score
ScoreResponse(n, score) ==
  IF score = Undefined
    THEN [dry_run |-> RawTrace(n), is_correct |-> JBool(TRUE),
          expected_output |-> JNum(1), actual_output |-> JNum(1)]
    ELSE [dry_run |-> RawTrace(n), is_correct |-> JBool(TRUE), accuracy_score |-> score,
          expected_output |-> JNum(1), actual_output |-> JNum(1)]

ScoreInit ==
  \E n \in 0..MaxViewTrace, score \in Scores :
    ViewInit([variables |-> <<"a", "b">>, digital_flowchart |-> Flowchart],
             ScoreResponse(n, score))

\* stepping to the end of the trace reveals the results panel
ScoreSpec == ScoreInit /\ [][goToNextStep]_vars

(***************************************************************************)
(* The session with a simulate call in flight, for every variable_state    *)
(* the remote service can put in a trace step.                             *)
(***************************************************************************)
\* a JSON value that is no object: a number, a text, a boolean or null
IsScalar(v) == Has(v, "number") \/ Has(v, "string") \/ Has(v, "boolean") \/ Has(v, "null")

\* variable_state as answered: an object, a scalar, or left out (Undefined)
AnsweredStates ==
  { EmptyMap, [a |-> JNum(1)], JNull, JNum(0), JNum(5), JStr(""), JStr("x"),
    JBool(FALSE), JBool(TRUE), Undefined }

ClientResponse(states) ==
  [dry_run |-> [k \in DOMAIN states |-> TrackerStep(k, states[k])],
   is_correct |-> JBool(TRUE), accuracy_score |-> JNum(100),
   expected_output |-> JNum(1), actual_output |-> JNum(1)]

ClientResponses ==
  UNION { {ClientResponse(states) : states \in [1..n -> AnsweredStates]}
          : n \in 1..MaxViewTrace }

\* the session handleSimulate leaves at its await; the inputs stay editable there
ClientInit ==
  /\ description = <<"x">>
  /\ image = NoImage
  /\ inputs \in [VariableNames -> InputTexts]
  /\ isAnalyzing = FALSE
  /\ isSimulating = TRUE
  /\ parsedData = parseFlowchart([variables |-> <<"a", "b">>, digital_flowchart |-> Flowchart])
  /\ simulationData = Null
  /\ currentStepIndex = -1
  /\ showResults = FALSE
  /\ errorMessage = NoMessage
  /\ mode = "text"
  /\ quotaExhausted = FALSE
  /\ pendingCalls = SetToBag({[SimulateCall EXCEPT !.inputs = [v \in VariableNames |-> "1"]]})
  /\ pendingKeyPrompts = 0
  /\ pendingReads = 0

ClientResolves ==
  \E call \in Pending("simulate"), response \in ClientResponses :
    handleSimulateResolved(call, response)

ClientNext ==
  \/ ClientResolves
  \/ goToNextStep

ClientSpec == ClientInit /\ [][ClientNext]_vars

(***************************************************************************)
(* Properties of the controller.                                           *)
(***************************************************************************)
\* the stored trace
Trace == simulationData.dry_run

SimulateResolves ==
  \E call \in Pending("simulate"), response \in SimulateResponses :
    handleSimulateResolved(call, response)

ParseResolves ==
  \E call \in Pending("parse"), response \in ParseResponses :
    handleParseResolved(call, response)

ParseRejects ==
  \E call \in Pending("parse"), msg \in ErrorMessages : handleParseRejected(call, msg)

RecordsInput ==
  \E varName \in VariableNames, value \in InputTexts : recordInput(varName, value)

\* the text the tracker shows for a variable before a trace step overrides it
CurrentValue(varName) == IF varName \in DOMAIN inputs THEN inputs[varName] ELSE ""

\* C1: on a stored trace of length N >= 1 the cursor is within 0..N-1, and every
\* advanceStep taken below the last step moves the cursor up by one and leaves
\* resultsRevealed as it was, while every advanceStep taken on the last step leaves
\* the cursor and sets resultsRevealed.  From cursor 0 with resultsRevealed false,
\* the first N-1 calls therefore each increment the cursor, the N-th sets
\* resultsRevealed at cursor N-1, and every further call changes neither.
C1_AdvanceStep ==
  [][ (goToNextStep /\ Len(Trace) >= 1) =>
        /\ currentStepIndex \in 0..(Len(Trace) - 1)
        /\ IF currentStepIndex < Len(Trace) - 1
             THEN currentStepIndex' = currentStepIndex + 1 /\ showResults' = showResults
             ELSE currentStepIndex' = currentStepIndex /\ showResults' = TRUE ]_vars

\* C1 witness: a trace of two steps walked to its end, results revealed
C1_Witness ==
  /\ simulationData # Null
  /\ Len(Trace) = 2
  /\ currentStepIndex = 1
  /\ showResults
  /\ pendingCalls = EmptyBag

\* C2: when a simulate call resolves with a trace of length N >= 1 the outcome is
\* stored, the cursor is 0, resultsRevealed is false and isSimulating is false.
C2_AfterSimulate ==
  [][ (SimulateResolves /\ Len(simulationData'.dry_run) >= 1) =>
        /\ simulationData' # Null
        /\ currentStepIndex' = 0
        /\ showResults' = FALSE
        /\ isSimulating' = FALSE ]_vars

\* C3: with a flowchart of at least one variable of which some variable's value is
\* the empty text, startSimulation issues no call, sets the validation message and
\* changes nothing else.
C3_EmptyInputRejected ==
  [][ ( /\ handleSimulate
        /\ parsedData.variables # <<>>
        /\ \E v \in Range(parsedData.variables) : CurrentValue(v) = "" ) =>
        /\ pendingCalls' = pendingCalls
        /\ errorMessage' = ValidationMessage
        /\ UNCHANGED <<description, image, inputs, isAnalyzing, isSimulating, parsedData,
                       simulationData, currentStepIndex, showResults, mode,
                       quotaExhausted, pendingKeyPrompts, pendingReads>> ]_vars

\* C3 witness: the validation message shown for a flowchart with one variable filled
\* and one left empty, nothing in flight
C3_Witness ==
  /\ errorMessage = ValidationMessage
  /\ parsedData # Null
  /\ CurrentValue("a") = "1"
  /\ CurrentValue("b") = ""
  /\ ~isSimulating
  /\ pendingCalls = EmptyBag

\* C4: when a parse call resolves with variable list V the input mapping becomes
\* exactly V -> "": its keys are the names of V and every value is the empty text.
C4_InputsReplaced ==
  [][ ParseResolves =>
        /\ DOMAIN inputs' = Range(parsedData'.variables)
        /\ \A v \in DOMAIN inputs' : inputs'[v] = "" ]_vars

\* C4 witness: a parse has resolved with variables a, b and both inputs are empty
C4_Witness ==
  /\ parsedData # Null
  /\ parsedData.variables = <<"a", "b">>
  /\ inputs = [v \in {"a", "b"} |-> ""]
  /\ ~isAnalyzing

\* C5 (as claimed): a parse call that fails leaves the flowchart and the outcome
\* that were stored before submitDescriptionOrImage: neither the step that issues
\* the call nor the step that handles its failure changes them.
C5_FailedParsePreserves ==
  [][ (handleParse \/ ParseRejects) =>
        parsedData' = parsedData /\ simulationData' = simulationData ]_vars

\* C5 (amended): submitDescriptionOrImage discards the stored flowchart and outcome
\* when it issues the call, and the failure does not restore them: the failure
\* clears isAnalyzing, sets an error message and may set quotaExhausted, and leaves
\* flowchart, outcome, inputs, cursor, resultsRevealed, isSimulating and the form
\* as they were just before it.
C5_FailedParseFrame ==
  [][ /\ (handleParse /\ canParse) => (parsedData' = Null /\ simulationData' = Null)
      /\ ParseRejects =>
           /\ isAnalyzing' = FALSE
           /\ errorMessage' \in {QuotaMessage, ExpiredMessage, GenericMessage}
           /\ UNCHANGED <<description, image, inputs, isSimulating, parsedData,
                          simulationData, currentStepIndex, showResults, mode>> ]_vars

\* C5 witness: a parse has failed and no flowchart is stored, although the inputs of
\* an earlier flowchart are
C5_Witness ==
  /\ errorMessage = GenericMessage
  /\ ~isAnalyzing
  /\ parsedData = Null
  /\ inputs # EmptyMap
  /\ pendingCalls = EmptyBag

\* C6: at most one remote call, parse or simulate, is outstanding.
C6_OneCallOutstanding == BagCardinality(pendingCalls) <= 1

\* C7: while a parse call is outstanding isAnalyzing is true, and while a simulate
\* call is outstanding isSimulating is true.
C7_BusyWhilePending ==
  /\ Pending("parse") # {} => isAnalyzing
  /\ Pending("simulate") # {} => isSimulating

\* C8: resetSession is enabled in every reachable state, and the session right
\* after it is the initial session in every field.
C8_ResetToInitial ==
  /\ [](ENABLED reset)
  /\ [][ reset =>
           session' = << <<>>, NoImage, EmptyMap, FALSE, FALSE, Null, Null, -1, FALSE,
                         NoMessage, "text", FALSE >> ]_vars

\* C8 witness: the initial session with a call still in flight, which only a reset
\* taken while the call was pending leaves
C8_Witness ==
  /\ session = << <<>>, NoImage, EmptyMap, FALSE, FALSE, Null, Null, -1, FALSE,
                  NoMessage, "text", FALSE >>
  /\ Pending("simulate") # {}

\* C9: once the simulate call is issued, recordInput does not change the input
\* mapping: neither while the call that was sent this mapping is pending, nor while
\* an outcome is stored.
C9_InputsLocked ==
  [][ ( /\ RecordsInput
        /\ \/ \E call \in Pending("simulate") : call.inputs = inputs
           \/ simulationData # Null ) =>
        inputs' = inputs ]_vars

\* C10 (as claimed): resultsRevealed implies that an outcome is stored and that the
\* cursor is on the last trace step.
C10_RevealedHasOutcome ==
  showResults => (simulationData # Null /\ currentStepIndex = Len(Trace) - 1)

\* C10 (amended): resultsRevealed turns true only in a step that leaves the stored
\* outcome and the cursor as they are, taken while an outcome is stored and the
\* cursor is on the last trace step (or the trace is empty); it turns false again
\* only by startSimulation or resetSession, so it stays true when a new parse
\* discards the outcome.
C10_RevealedOnlyAtEnd ==
  [][ /\ (~showResults /\ showResults') =>
           /\ simulationData # Null
           /\ simulationData' = simulationData
           /\ currentStepIndex' = currentStepIndex
           /\ currentStepIndex + 1 >= Len(Trace)
           /\ Len(Trace) >= 1 => currentStepIndex = Len(Trace) - 1
      /\ (showResults /\ ~showResults') => (handleSimulate \/ reset) ]_vars

\* C10 witness: resultsRevealed still true after a new parse discarded the outcome
\* and stored its flowchart
C10_Witness ==
  /\ showResults
  /\ simulationData = Null
  /\ parsedData # Null
  /\ ~isAnalyzing

\* C11: whenever a flowchart is stored, the keys of the input mapping are exactly
\* the variable names of the stored parse result.
C11_InputKeysAreVariables ==
  parsedData # Null => DOMAIN inputs = Range(parsedData.variables)

\* C11 witness: a flowchart with variables is stored after a failed call left its
\* error message, a value has been typed, and an outcome is stored and revealed.
C11_Witness ==
  /\ parsedData # Null
  /\ parsedData.variables # <<>>
  /\ \E k \in DOMAIN inputs : inputs[k] # ""
  /\ simulationData # Null
  /\ showResults
  /\ errorMessage \in {QuotaMessage, ExpiredMessage, GenericMessage}

\* a remote call, parse or simulate, fails with the error message msg
CallRejects(call, msg) ==
  handleParseRejected(call, msg) \/ handleSimulateRejected(call, msg)

\* C12: a failed remote call whose message contains "RESOURCE_EXHAUSTED" sets
\* quotaExhausted and the quota message, opens no credential-selection prompt and
\* issues no remote call: the failed call leaves flight and nothing enters it.
C12_QuotaError ==
  [][\A call \in BagToSet(pendingCalls), msg \in ErrorMessages :
       (Includes(msg, "RESOURCE_EXHAUSTED") /\ CallRejects(call, msg))
         => /\ quotaExhausted'
            /\ errorMessage' = QuotaMessage
            /\ pendingKeyPrompts' = pendingKeyPrompts
            /\ pendingCalls' = pendingCalls (-) SetToBag({call})]_vars

\* C12 witness: a simulate call has failed on quota: the flowchart is stored, the
\* quota flag and message are set and nothing is in flight.
C12_Witness ==
  /\ quotaExhausted
  /\ errorMessage = QuotaMessage
  /\ parsedData # Null
  /\ ~isSimulating
  /\ InFlight = 0

\* C13: a failed remote call whose message contains "Requested entity was not
\* found" leaves quotaExhausted false, sets the re-select message and opens exactly
\* one credential-selection prompt.
C13_ExpiredError ==
  [][\A call \in BagToSet(pendingCalls), msg \in ErrorMessages :
       (Includes(msg, "Requested entity was not found") /\ CallRejects(call, msg))
         => /\ ~quotaExhausted'
            /\ errorMessage' = ExpiredMessage
            /\ pendingKeyPrompts' = pendingKeyPrompts + 1]_vars

\* C13 as the code has it: a failed remote call whose message contains "Requested
\* entity was not found" and neither quota marker leaves quotaExhausted as it was,
\* sets the re-select message and opens at most one credential-selection prompt
\* (one when the host offers openSelectKey, none otherwise); the failed call leaves
\* flight and no remote call enters it.
C13_ExpiredErrorNoQuotaMarker ==
  [][\A call \in BagToSet(pendingCalls), msg \in ErrorMessages :
       ( /\ Includes(msg, "Requested entity was not found")
         /\ ~Includes(msg, "429")
         /\ ~Includes(msg, "RESOURCE_EXHAUSTED")
         /\ CallRejects(call, msg) )
         => /\ quotaExhausted' = quotaExhausted
            /\ errorMessage' = ExpiredMessage
            /\ pendingKeyPrompts' \in {pendingKeyPrompts, pendingKeyPrompts + 1}
            /\ pendingCalls' = pendingCalls (-) SetToBag({call})]_vars

\* C13 witness: a call has failed on an expired key with the quota flag clear: the
\* re-select message is set and the one prompt it opened is the only thing in flight.
C13_Witness ==
  /\ errorMessage = ExpiredMessage
  /\ ~quotaExhausted
  /\ pendingKeyPrompts = 1
  /\ InFlight = 1

\* C14: when a simulate call fails, the session is the Parsed state startSimulation
\* left: the flowchart and the input mapping are the ones the call was sent with, no
\* outcome is stored, the simulate busy flag is false and an error message is set.
C14_FailedSimulateRestores ==
  [][\A call \in Pending("simulate"), msg \in ErrorMessages :
       handleSimulateRejected(call, msg)
         => /\ parsedData' # Null
            /\ parsedData'.digital_flowchart = call.digital_flowchart
            /\ inputs' = call.inputs
            /\ simulationData' = Null
            /\ ~isSimulating'
            /\ errorMessage' # NoMessage]_vars

\* C15: in text mode a submit with a non-blank description puts exactly one call in
\* flight, a parse call carrying the description as typed; with an empty or
\* whitespace-only description it puts none in flight.
C15_SubmitIssuesOneParse ==
  [][(mode = "text" /\ handleParse)
       => IF Trim(description) # <<>>
            THEN \E call \in [kind : {"parse"}, description : {description},
                               inputs : {EmptyMap}, digital_flowchart : {<<>>},
                               image : Images \cup {NoImage}] :
                   pendingCalls' = pendingCalls (+) SetToBag({call})
            ELSE pendingCalls' = pendingCalls]_vars

\* C15 witness: in text mode a parse call is in flight that carries a description
\* with white space around its text, while the stored description is still that one.
C15_Witness ==
  /\ mode = "text"
  /\ description = <<" ", "x", " ">>
  /\ isAnalyzing
  /\ \E call \in Pending("parse") : call.description = description

\* C16: at every cursor position k >= 1 a variable present in the state maps of both
\* trace[k] and trace[k-1] with differing values is marked changed; a variable absent
\* from both state maps is not marked; and at cursor 0 no variable is marked.
C16_ChangedFlag ==
  \A v \in VariableNames :
    /\ ( /\ currentDryStep # Null
          /\ currentStepIndex >= 1
          /\ v \in DOMAIN currentDryStep.variable_state
          /\ v \in DOMAIN previousDryStep.variable_state
          /\ currentDryStep.variable_state[v] # previousDryStep.variable_state[v] )
        => showsChanged(v)
    /\ ( /\ currentDryStep # Null
          /\ currentStepIndex >= 1
          /\ v \notin DOMAIN currentDryStep.variable_state
          /\ v \notin DOMAIN previousDryStep.variable_state )
        => ~showsChanged(v)
    /\ currentStepIndex = 0 => ~showsChanged(v)

\* C16 witness: the cursor is on the second step, where a went from 0 to the empty
\* text and b is in neither step's state.
C16_Witness ==
  /\ currentStepIndex = 1
  /\ currentDryStep # Null
  /\ DOMAIN currentDryStep.variable_state = {"a"}
  /\ DOMAIN previousDryStep.variable_state = {"a"}
  /\ previousDryStep.variable_state["a"] = JNum(0)
  /\ currentDryStep.variable_state["a"] = JStr("")

\* C17: for every variable of the flowchart, the tracker's input shows the variable's
\* value in the current trace step when the step's state has it, whatever the value
\* (0, false and the empty text included), and the typed input otherwise.
C17_TrackerShowsStepValue ==
  \A v \in Range(parsedData.variables) :
    inputText(v) =
      IF currentDryStep # Null /\ v \in DOMAIN currentDryStep.variable_state
        THEN ValueText(currentDryStep.variable_state[v])
        ELSE CurrentValue(v)

\* C18: whatever steps the parse result holds and whatever the active id is, at most
\* one step is highlighted, and none is when the active id is null or is no step's id.
C18_AtMostOneHighlighted ==
  /\ Cardinality(highlighted) <= 1
  /\ (activeStepId = JNull \/ \A idx \in DOMAIN steps : JNum(steps[idx].id) # activeStepId)
       => highlighted = {}

\* C19: a submit whose precondition fails (text mode with a blank description, or
\* image mode with no image) puts no call in flight and leaves the flowchart, the
\* outcome, the inputs, the cursor, resultsRevealed and both busy flags unchanged.
C19_RejectedSubmitFrame ==
  [][( /\ handleParse
       /\ \/ mode = "text" /\ Trim(description) = <<>>
          \/ mode = "image" /\ image = NoImage )
       => /\ pendingCalls' = pendingCalls
          /\ UNCHANGED <<parsedData, simulationData, inputs, currentStepIndex,
                          showResults, isAnalyzing, isSimulating>>]_vars

\* C19 witness: in image mode with no image, where a submit is rejected, a flowchart,
\* typed inputs and a revealed outcome are stored and the submit control is enabled.
C19_Witness ==
  /\ mode = "image"
  /\ image = NoImage
  /\ ~isAnalyzing
  /\ parsedData # Null
  /\ \E k \in DOMAIN inputs : inputs[k] # ""
  /\ simulationData # Null
  /\ showResults

\* C20: whenever the results panel is shown, the score it displays and grades is a
\* number within 0..100, whatever accuracy_score the remote service answered with
\* (absent, null, not a number, below 0 or above 100 included).
C20_DisplayedScoreInRange ==
  resultsShown
    => /\ Has(displayedScore, "number")
       /\ displayedScore.number >= 0
       /\ displayedScore.number <= 100

\* C21: for every simulate answer, every step of the stored outcome carries a
\* variable_state that is a mapping, the empty one when the answer's step has none
\* or null, and every other field of the step is the answer's.
C21_StepsCarryMappings ==
  [][\A call \in Pending("simulate"), response \in ClientResponses :
       handleSimulateResolved(call, response)
         => /\ Len(simulationData'.dry_run) = Len(response.dry_run)
            /\ \A k \in DOMAIN response.dry_run :
                 LET raw == response.dry_run[k]
                     step == simulationData'.dry_run[k]
                 IN /\ ~IsScalar(step.variable_state)
                    /\ Field(raw, "variable_state") \in {Undefined, JNull}
                         => step.variable_state = EmptyMap
                    /\ \A f \in DOMAIN raw \ {"variable_state"} : step[f] = raw[f]]_vars

\* C22: whenever an outcome is stored the cursor is within the trace,
\* 0 <= cursor < length(trace), for a trace of length 0 as well.
C22_CursorWithinTrace ==
  simulationData # Null
    => currentStepIndex >= 0 /\ currentStepIndex < Len(simulationData.dry_run)

\* C22 as the code has it: whenever an outcome is stored the cursor is within the
\* trace when the trace has steps, and is 0 when the trace is empty.
C22_CursorWithinTraceOrZero ==
  simulationData # Null
    => IF Len(simulationData.dry_run) = 0
         THEN currentStepIndex = 0
         ELSE currentStepIndex >= 0 /\ currentStepIndex < Len(simulationData.dry_run)

\* C22 witness: the cursor has been advanced to the end of a trace of MaxTrace steps
\* and the results are revealed.
C22_Witness ==
  /\ simulationData # Null
  /\ Len(simulationData.dry_run) = MaxTrace
  /\ currentStepIndex = MaxTrace - 1
  /\ showResults

\* the session reset stores, in the order of session
initialSession ==
  <<<<>>, NoImage, EmptyMap, FALSE, FALSE, Null, Null, -1, FALSE, NoMessage, "text", FALSE>>

\* C23: in the empty session reset leaves, the resolution or rejection of a parse or
\* simulate call issued before the reset stores nothing: the session stays initial.
C23_ResetSessionStaysEmpty ==
  [][( /\ session = initialSession
       /\ \/ ParseResolves
          \/ SimulateResolves
          \/ \E call \in BagToSet(pendingCalls), msg \in ErrorMessages : CallRejects(call, msg) )
       => session' = initialSession]_vars

\* C24: when every issued remote call eventually resolves or rejects, a state in
\* which isAnalyzing is true is followed by one in which it is false, and the same
\* for isSimulating.
C24_BusyEventuallyClears ==
  /\ isAnalyzing ~> ~isAnalyzing
  /\ isSimulating ~> ~isSimulating

\* C24 witness: a simulate call has failed on an expired key and left the busy flags
\* clear with no call pending.
C24_Witness ==
  /\ pendingCalls = EmptyBag
  /\ ~isAnalyzing
  /\ ~isSimulating
  /\ parsedData # Null
  /\ errorMessage = ExpiredMessage

\* C25: once quotaExhausted is true, the only steps that make it false are the
\* completion of a credential selection and the reset of the session; submits,
\* settled calls, recordInput and advanceStep leave it true.
C25_QuotaFlagPersists ==
  [][(quotaExhausted /\ ~quotaExhausted') => (handleSelectKeyResolved \/ reset)]_vars

\* C25 witness: the quota flag set by a failed call is still set after a later
\* parse and simulate succeeded and the trace was stepped to its end.
C25_Witness ==
  /\ quotaExhausted
  /\ parsedData # Null
  /\ simulationData # Null
  /\ showResults
  /\ errorMessage = NoMessage

\* flowchart_step_id of the k-th trace step as the renderer receives it
StepIdOf(k) ==
  IF Has(simulationData.dry_run[k], "flowchart_step_id")
    THEN JNum(simulationData.dry_run[k].flowchart_step_id)
    ELSE JNull

\* C26: the active step id handed to the renderer is that of trace[cursor] when an
\* outcome is stored and the cursor is within the trace, and none otherwise; and
\* while the results are revealed it is that of the last trace step.
C26_ActiveStepFollowsCursor ==
  /\ activeStepId =
       IF /\ simulationData # Null
          /\ currentStepIndex >= 0
          /\ currentStepIndex < Len(simulationData.dry_run)
         THEN StepIdOf(currentStepIndex + 1)
         ELSE JNull
  /\ (showResults /\ simulationData # Null /\ Len(simulationData.dry_run) >= 1)
       => activeStepId = StepIdOf(Len(simulationData.dry_run))

\* C27: whenever an outcome is stored a flowchart is stored too, and every simulate
\* resolution stores its outcome next to the flowchart its call was sent with.
C27_OutcomeMatchesFlowchart ==
  /\ [](simulationData # Null => parsedData # Null)
  /\ [][\A call \in Pending("simulate"), response \in SimulateResponses :
          handleSimulateResolved(call, response)
            => /\ parsedData' # Null
               /\ parsedData'.digital_flowchart = call.digital_flowchart]_vars

\* C28: every failed call is classified as exactly one of quota exhausted, credential
\* expired and generic, the quota markers taking priority over "Requested entity was
\* not found"; a quota classification sets the quota flag and opens no credential
\* prompt, and only the credential-expired classification can open one.
C28_ClassificationTotalExclusive ==
  [][\A call \in BagToSet(pendingCalls), msg \in ErrorMessages :
       CallRejects(call, msg) =>
         LET quota == Includes(msg, "429") \/ Includes(msg, "RESOURCE_EXHAUSTED")
             expired == ~quota /\ Includes(msg, "Requested entity was not found")
         IN /\ errorMessage' =
                 IF quota THEN QuotaMessage
                 ELSE IF expired THEN ExpiredMessage ELSE GenericMessage
            /\ Cardinality({m \in {QuotaMessage, ExpiredMessage, GenericMessage} :
                              m = errorMessage'}) = 1
            /\ quota => (quotaExhausted' /\ pendingKeyPrompts' = pendingKeyPrompts)
            /\ ~quota => quotaExhausted' = quotaExhausted
            /\ (~quota /\ ~expired) => pendingKeyPrompts' = pendingKeyPrompts]_vars

\* C28 witness: every call has failed, the last one classified generic, in a session
\* an earlier quota failure had flagged; no credential prompt was opened
C28_Witness ==
  /\ errorMessage = GenericMessage
  /\ quotaExhausted
  /\ pendingKeyPrompts = 0
  /\ pendingCalls = EmptyBag
  /\ ~isAnalyzing
  /\ ~isSimulating

\* the session fields other than quotaExhausted and errorMessage
sessionRest == <<description, image, inputs, isAnalyzing, isSimulating, parsedData,
                 simulationData, currentStepIndex, showResults, mode>>

\* C29: a credential selection that completes sets quotaExhausted to false and clears
\* the error message whatever it was, and changes no other session field; a selection
\* that fails, or a request made where the host has no prompt, leaves the session as
\* it is.
C29_SelectKeyFrame ==
  [][/\ handleSelectKeyResolved
          => /\ quotaExhausted' = FALSE
             /\ errorMessage' = NoMessage
             /\ sessionRest' = sessionRest
     /\ handleSelectKeyRejected => session' = session
     /\ handleSelectKey => session' = session]_vars

\* C29 witness: a credential selection is open while the quota flag is set and the
\* input validation message is shown
C29_Witness ==
  /\ pendingKeyPrompts > 0
  /\ quotaExhausted
  /\ errorMessage = ValidationMessage
  /\ parsedData # Null

\* the calls a step adds to the calls in flight
NewCalls ==
  {c \in BagToSet(pendingCalls') : CopiesIn(c, pendingCalls') > CopiesIn(c, pendingCalls)}

\* C30: every parse call and every simulate call carries the stored description and
\* the stored image, whatever the input mode is.
C30_PayloadIgnoresMode ==
  [][\A c \in NewCalls : c.description = description /\ c.image = image]_vars

\* C30 witness: in text mode a call is in flight that carries an uploaded image
C30_Witness ==
  /\ mode = "text"
  /\ \E c \in BagToSet(pendingCalls) :
        /\ c.image # NoImage
        /\ c.image = image
        /\ c.description = description

====
